---- MODULE Spec2Model ----
(***************************************************************************)
(* A model of moneyball: the walk-forward portfolio blend (Portfolio.fit), *)
(* the Kelly multiplier grid search (Strategy.kelly_ratio), the training   *)
(* labels (Strategy.fit.make_y), the files the command line writes, the    *)
(* next bets (Strategy.next, Portfolio.next_bets) and the stake fractions  *)
(* of one date (augment_kelly_fractions, calculate_returns).               *)
(*                                                                         *)
(* Numbers: returns are integers (one unit = one smallest money step).     *)
(* A weight is an integer count of N-ths, N the number of strategy         *)
(* columns: 1/N is written 1 and 1.0 is written N.  A cell of the blended  *)
(* table is likewise a count of N-ths of a unit.                           *)
(***************************************************************************)
EXTENDS Integers, Sequences, FiniteSets, TLC

(* ------------------------------ bounds -------------------------------- *)
\* number of strategy columns of the return matrix explored by SpecFit
NumStrategies == 3
\* number of dates (rows) of the return matrix explored by SpecFit
MaxDates == 6

\* the Calmar ratios explored by SpecKelly range over -1..MaxScore
MaxScore == 1
\* SpecLabels explores events of 2..MaxTeams participants
MaxTeams == 4
\* SpecLabels explores place thresholds 1..MaxPlace
MaxPlace == 5

(* ------------------------- program constants -------------------------- *)
\* portfolio.py:72  len(np.unique(x)) < 10
MinDistinct == 10
\* strategy.py:339  for i in range(100); line 340 (100 - i) / 100.0
GridSize == 100

\* a missing cell (np.NaN) is the empty sequence, a present one <<x>>
NaN == <<>>
Num(x) == <<x>>
\* Python's None, for a variable that otherwise holds a sequence
None == <<>>

VARIABLES
    \* ---- Portfolio.fit (portfolio.py:60-89)
    returns,        \* the input matrix after line 64: rows [dt, v]
    ret,            \* the output table being filled: rows [dt, v, port]
    fit_pos,        \* position of the loop of line 69 in returns.index
    fit_pc,         \* "loop" | "done"
    weights,        \* the local `weights` of line 78 (None until assigned)
    policy,         \* per date, the branch of line 72 that was taken
    applied,        \* per date, the weights that multiplied the date's row
    prev_applied,   \* `applied` of the previous fit on this portfolio
    cut,            \* first row position changed since the previous fit (0: none)
    \* ---- Strategy.kelly_ratio (strategy.py:326-353)
    calmar,         \* per candidate k (in hundredths), the Calmar ratio of its series
    ruinous,        \* the candidates whose series has a drawdown of 100% or more
    kr_i,           \* the loop variable i of line 339
    max_return,     \* the local max_return
    max_kelly,      \* the local max_kelly, in hundredths (0 is 0.0)
    kr_pc,          \* "idle" | "loop" | "done"
    kr_result,      \* the value returned at line 353, in hundredths
    kr_series,      \* the k whose series line 351 stores in self._returns
    kr_prev,        \* the value returned by the previous call (0: none)
    \* ---- Strategy.fit / make_y (strategy.py:355-381)
    y_points,       \* y = df[training_cols]: per event, team (0-based) -> points
    place,          \* self._place
    labels,         \* the value make_y returns (None until it returns)
    lab_pc,         \* "idle" | "start" | "labelled" | "trained" | "raised"
    lab_error,      \* the exception fit raised ("none" if none)
    \* ---- the files and objects of a run (strategy.py, portfolio.py, __main__.py)
    disk,           \* the files: df, config, returns_df, cache per strategy; portfolio
    strat,          \* per name, the Strategy object of the process
    port,           \* the Portfolio object of the process
    fit_weights,    \* the weights Portfolio.fit last computed (None before any fit)
    result,         \* the last operation: [op, target, raised, value, ran]
    \* ---- Strategy.next and Portfolio.next_bets (strategy.py:429-442, portfolio.py:120-144)
    pred,           \* the table predict() returns: rows [id, dt, probs]
    next_df,        \* the local df of Strategy.next while it is filtered
    next_out,       \* the value Strategy.next returned (None before it returns)
    nb_strategies,  \* self._strategies of the portfolio, as names
    nb_i,           \* position of the loop of line 124 in self._strategies
    bets,           \* bets["bets"]
    nb_pc,          \* "idle" | "call" | "start" | "end" | "returned" | "done" | "raised"
    nb_error,       \* the exception next_bets raised ("none" if none)
    \* ---- augment_kelly_fractions and calculate_returns (called at strategy.py:335, 341)
    events,         \* the events of one date: the backed outcome's [p, price] in
                    \* tenths, which of the two is there (has), and whether it won
    try_k,          \* the candidate multiplier, in hundredths
    raw,            \* per event, the raw Kelly fraction, in hundredths
    scaled_fs,      \* per event, the raw fraction times k, in ten-thousandths
    stakes,         \* per event, the normalized stake fraction [num, den]
    pnl,            \* the date's P&L [num, den] (NaN until settled)
    stake_pc,       \* "idle" | "start" | "raw" | "scaled" | "normalized" | "settled"
    \* ---- the odds prompt of Strategy.predict (strategy.py:395-415)
    x_df,           \* the feature table: rows [day, odds], odds per team_id
    x_before,       \* x_df as it was when the loop of line 398 started
    future_rows,    \* the rows selected at line 397: [idx, row]
    pr_i,           \* position of the loop of line 398 in future_rows
    pr_team,        \* team_id of the loop of line 399
    pr_invalid,     \* entries refused so far
    pr_pc,          \* "idle" | "loop" | "prompt" | "transform"
    \* ---- CombinedFeature.process (combined_feature.py:50-71)
    cf_df,          \* the local df: a set of columns [name, cell]
    cf_lookahead,   \* df.attrs[str(FieldType.LOOKAHEAD)]
    cf_i,           \* position in the feature list being applied
    cf_applied,     \* the features applied so far, in order
    cf_received,    \* the column names handed to a posttrain feature so far
    cf_pc           \* "idle" | "pretrain" | "posttrain" | "returned"

fitVars == <<returns, ret, fit_pos, fit_pc, weights, policy, applied,
             prev_applied, cut>>

kellyVars == <<calmar, ruinous, kr_i, max_return, max_kelly, kr_pc, kr_result,
               kr_series, kr_prev>>

labelVars == <<y_points, place, labels, lab_pc, lab_error>>

runVars == <<disk, strat, port, fit_weights, result>>

nextVars == <<pred, next_df, next_out, nb_strategies, nb_i, bets, nb_pc, nb_error>>

stakeVars == <<events, try_k, raw, scaled_fs, stakes, pnl, stake_pc>>

promptVars == <<x_df, x_before, future_rows, pr_i, pr_team, pr_invalid, pr_pc>>

cfVars == <<cf_df, cf_lookahead, cf_i, cf_applied, cf_received, cf_pc>>

vars == <<fitVars, kellyVars, labelVars, runVars, nextVars, stakeVars, promptVars,
          cfVars>>

\* what an operation of one part of the program leaves alone
notFit == <<kellyVars, labelVars, runVars, nextVars, stakeVars, promptVars, cfVars>>
notKelly == <<fitVars, labelVars, runVars, nextVars, stakeVars, promptVars, cfVars>>
notLabels == <<fitVars, kellyVars, runVars, nextVars, stakeVars, promptVars, cfVars>>
notRun == <<fitVars, kellyVars, labelVars, nextVars, stakeVars, promptVars, cfVars>>
notNext == <<fitVars, kellyVars, labelVars, runVars, stakeVars, promptVars, cfVars>>
notStake == <<fitVars, kellyVars, labelVars, runVars, nextVars, promptVars, cfVars>>
notPrompt == <<fitVars, kellyVars, labelVars, runVars, nextVars, stakeVars, cfVars>>
notCf == <<fitVars, kellyVars, labelVars, runVars, nextVars, stakeVars, promptVars>>

(* ----------------------------- helpers -------------------------------- *)
RECURSIVE SumSeq(_)
SumSeq(s) == IF s = <<>> THEN 0 ELSE Head(s) + SumSeq(Tail(s))

Range(s) == {s[i] : i \in DOMAIN s}

(* ======================= Portfolio.fit ================================ *)
\* len(returns.columns.values)
NumCols(m) == Len(m[1].v)

\* returns[returns.index < dt]
History(m, dt) == SelectSeq(m, LAMBDA r : r.dt < dt)

\* np.unique(x): the distinct values of every cell of x
Unique(x) == UNION {Range(x[i].v) : i \in DOMAIN x}

\* a slip of the comparison: ten distinct values still fall back
UseFallback_AtMost(x) == Len(x) = 0 \/ Cardinality(Unique(x)) <= MinDistinct

\* x.empty or len(np.unique(x)) < 10
UseFallback(x) == Len(x) = 0 \/ Cardinality(Unique(x)) < MinDistinct

\* 1.0 / len(returns.columns.values) for every column
EqualWeights(m) == [c \in 1..NumCols(m) |-> 1]

\* the sum of column c over the rows of m (its historical mean times Len(m))
ColumnSum(m, c) == SumSeq([i \in DOMAIN m |-> m[i].v[c]])

\* rp.Portfolio(returns=m).optimization(model="Classic", rm="MV", obj="MaxRet",
\* hist=True): the long-only budget goes to the column of highest historical
\* mean of the matrix it is given (the first such column on a tie).
Optimization(m) ==
    LET best == CHOOSE c \in 1..NumCols(m) :
                    /\ \A e \in 1..NumCols(m) : ColumnSum(m, e) <= ColumnSum(m, c)
                    /\ \A e \in 1..(c - 1) : ColumnSum(m, e) < ColumnSum(m, c)
    IN  [c \in 1..NumCols(m) |-> IF c = best THEN NumCols(m) ELSE 0]

\* line 77: the matrix handed to the optimizer for date dt
OptimizerInput(m, dt) == m

\* ret = returns.copy(); ret[self._name] = np.NaN
CopyWithPortfolio(m) ==
    [i \in DOMAIN m |->
        [dt |-> m[i].dt,
         v |-> [c \in 1..NumCols(m) |-> NumCols(m) * m[i].v[c]],
         port |-> NaN]]

\* lines 73-75: (returns.loc[index] * (1.0 / N)).sum()
FallbackRow(m, r, i) ==
    [r EXCEPT !.port =
        Num(SumSeq([c \in 1..NumCols(m) |-> EqualWeights(m)[c] * m[i].v[c]]))]

\* a slip of the accumulation: total_ret = instead of total_ret +=
OptimizedRow_LastColumn(m, r, w) ==
    LET scaled == [c \in 1..NumCols(m) |-> (r.v[c] * w[c]) \div NumCols(m)]
    IN  [r EXCEPT !.v = scaled, !.port = Num(scaled[NumCols(m)])]

\* lines 81-85: ret.loc[index, col] *= weights[col]; total_ret += ...
OptimizedRow(m, r, w) ==
    LET scaled == [c \in 1..NumCols(m) |-> (r.v[c] * w[c]) \div NumCols(m)]
    IN  [r EXCEPT !.v = scaled, !.port = Num(SumSeq(scaled))]

\* the table filled but not resampled: fillna(0.0) alone
AsFreqD_FillOnly(t) ==
    [i \in DOMAIN t |-> [t[i] EXCEPT !.port = IF @ = NaN THEN Num(0) ELSE @]]

\* ret.asfreq("D").fillna(0.0): one row per calendar day from the first to the
\* last date, days without a row and cells without a value become 0.0
AsFreqD(t) ==
    IF t = <<>> THEN t
    ELSE LET first == t[1].dt
             last == t[Len(t)].dt
             n == Len(t[1].v)
             At(d) == IF \E i \in DOMAIN t : t[i].dt = d
                      THEN LET r == t[CHOOSE i \in DOMAIN t : t[i].dt = d]
                           IN  [r EXCEPT !.port = IF r.port = NaN THEN Num(0) ELSE r.port]
                      ELSE [dt |-> d, v |-> [c \in 1..n |-> 0], port |-> Num(0)]
         IN  [k \in 1..(last - first + 1) |-> At(first + k - 1)]

(* ---- the return matrices explored ---- *)
\* a row of zeros, an ascending and a descending row
RowOf(p, r) ==
    [c \in 1..NumStrategies |->
        CASE p = "zero" -> 0
          [] p = "asc" -> NumStrategies * (r - 1) + c
          [] p = "desc" -> NumStrategies * r - c + 1]

\* the dates of the index: one row every day, or no rows on two days after the
\* third row
DateOf(l, i) == IF l = "gap" /\ i > 3 THEN i + 2 ELSE i

Matrices ==
    {[i \in 1..MaxDates |-> [dt |-> DateOf(l, i), v |-> RowOf(ps[i], i)]] :
        ps \in [1..MaxDates -> {"zero", "asc", "desc"}], l \in {"daily", "gap"}}

(* ---- the names, tables and empty state of a run ---- *)
\* the strategy names given on the command line
Names == {"a", "b"}
\* the training tables a strategy can be given
Tables == {"t1", "t2"}
\* no table: Python's None for self._df, and a file that does not exist
NoTable == "None"
\* df.to_csv(): the index, the column names and the cells of the table
ToCsv(t) == IF t \in {"t1", "t1x"} THEN "cells1" ELSE "cells2"

\* no explicit place (Python's None) and no config.json are both written 0
NoPlace == 0

\* a directory tree in which nothing has been written yet
EmptyDisk ==
    [df |-> [n \in Names |-> NoTable],
     config |-> [n \in Names |-> NoPlace],
     returns_df |-> [n \in Names |-> NoTable],
     cache |-> [n \in Names |-> {}],
     portfolio |-> [exists |-> FALSE, strategies |-> <<>>]]

\* a name for which the process holds no Strategy object
NoStrategy == [live |-> FALSE, df |-> NoTable, place |-> NoPlace, returns |-> NoTable]

\* the process holds no Portfolio object
NoPortfolio == [live |-> FALSE, strategies |-> <<>>, weights |-> <<>>]

RunIdle ==
    /\ disk = EmptyDisk
    /\ strat = [n \in Names |-> NoStrategy]
    /\ port = NoPortfolio
    /\ fit_weights = None
    /\ result = [op |-> "start", target |-> "-", raised |-> "none",
                 value |-> NoTable, ran |-> FALSE]

FitIdle ==
    /\ returns = <<>>
    /\ ret = <<>>
    /\ fit_pos = 0
    /\ fit_pc = "idle"
    /\ weights = None
    /\ policy = <<>>
    /\ applied = <<>>
    /\ prev_applied = <<>>
    /\ cut = 0

KellyIdle ==
    /\ calmar = <<>>
    /\ ruinous = {}
    /\ kr_i = 0
    /\ max_return = 0
    /\ max_kelly = 0
    /\ kr_pc = "idle"
    /\ kr_result = 0
    /\ kr_series = 0
    /\ kr_prev = 0

LabelsIdle ==
    /\ y_points = <<>>
    /\ place = 1
    /\ labels = None
    /\ lab_pc = "idle"
    /\ lab_error = "none"

NextIdle ==
    /\ pred = <<>>
    /\ next_df = <<>>
    /\ next_out = None
    /\ nb_strategies = <<>>
    /\ nb_i = 0
    /\ bets = <<>>
    /\ nb_pc = "idle"
    /\ nb_error = "none"

StakeIdle ==
    /\ events = <<>>
    /\ try_k = 0
    /\ raw = <<>>
    /\ scaled_fs = <<>>
    /\ stakes = <<>>
    /\ pnl = NaN
    /\ stake_pc = "idle"

PromptIdle ==
    /\ x_df = <<>>
    /\ x_before = <<>>
    /\ future_rows = <<>>
    /\ pr_i = 0
    /\ pr_team = 0
    /\ pr_invalid = 0
    /\ pr_pc = "idle"

CfIdle ==
    /\ cf_df = {}
    /\ cf_lookahead = {}
    /\ cf_i = 0
    /\ cf_applied = <<>>
    /\ cf_received = {}
    /\ cf_pc = "idle"

InitFit ==
    /\ KellyIdle
    /\ LabelsIdle
    /\ RunIdle
    /\ NextIdle
    /\ StakeIdle
    /\ PromptIdle
    /\ CfIdle
    /\ returns \in Matrices
    /\ ret = CopyWithPortfolio(returns)
    /\ fit_pos = 1
    /\ fit_pc = "loop"
    /\ weights = None
    /\ policy = <<>>
    /\ applied = <<>>
    /\ prev_applied = <<>>
    /\ cut = 0

\* one pass of the loop of line 69, taking the branch of lines 73-75
FitStepFallback ==
    /\ fit_pc = "loop"
    /\ fit_pos <= Len(returns)
    /\ UseFallback(History(returns, returns[fit_pos].dt))
    /\ ret' = [ret EXCEPT ![fit_pos] = FallbackRow(returns, @, fit_pos)]
    /\ policy' = Append(policy, "fallback")
    /\ applied' = Append(applied, EqualWeights(returns))
    /\ fit_pos' = fit_pos + 1
    /\ UNCHANGED <<returns, fit_pc, weights, prev_applied, cut>>
    /\ UNCHANGED notFit

\* one pass of the loop of line 69, taking the branch of lines 77-85
FitStepOptimized ==
    /\ fit_pc = "loop"
    /\ fit_pos <= Len(returns)
    /\ ~UseFallback(History(returns, returns[fit_pos].dt))
    /\ LET w == Optimization(OptimizerInput(returns, returns[fit_pos].dt))
       IN  /\ weights' = w
           /\ ret' = [ret EXCEPT ![fit_pos] = OptimizedRow(returns, @, w)]
           /\ applied' = Append(applied, w)
    /\ policy' = Append(policy, "optimized")
    /\ fit_pos' = fit_pos + 1
    /\ UNCHANGED <<returns, fit_pc, prev_applied, cut>>
    /\ UNCHANGED notFit

\* lines 87-89: resample, fill, localize and return
FitFinish ==
    /\ fit_pc = "loop"
    /\ fit_pos > Len(returns)
    /\ ret' = AsFreqD(ret)
    /\ fit_pc' = "done"
    /\ UNCHANGED <<returns, fit_pos, weights, policy, applied, prev_applied, cut>>
    /\ UNCHANGED notFit

\* The strategies' return series change from row position c on (rows before c
\* keep their values) and the portfolio is fitted again on the new matrix.
RefitAfterChange(c, p) ==
    /\ fit_pc = "done"
    /\ cut = 0
    /\ c \in 1..Len(returns)
    /\ returns[c].v # RowOf(p, c)
    /\ LET m == [i \in DOMAIN returns |->
                    IF i < c THEN returns[i]
                    ELSE [dt |-> returns[i].dt, v |-> RowOf(p, i)]]
       IN  /\ returns' = m
           /\ ret' = CopyWithPortfolio(m)
    /\ cut' = c
    /\ prev_applied' = applied
    /\ applied' = <<>>
    /\ policy' = <<>>
    /\ weights' = None
    /\ fit_pos' = 1
    /\ fit_pc' = "loop"
    /\ UNCHANGED notFit

NextFit ==
    \/ FitStepFallback
    \/ FitStepOptimized
    \/ FitFinish
    \/ \E c \in 1..MaxDates, p \in {"asc", "desc"} : RefitAfterChange(c, p)

SpecFit == InitFit /\ [][NextFit]_vars

(* ===================== Strategy.kelly_ratio =========================== *)
\* a grid walked upwards, from 0.01 to 1.00
TestKellyRatio_Ascending(i) == i + 1

\* line 340: test_kelly_ratio = (100 - i) / 100.0, in hundredths
TestKellyRatio(i) == GridSize - i

\* calculate_value(calculate_returns(k, df, name)): the score of candidate k. A
\* series whose maximum drawdown reaches 100% scores 0, any other its Calmar
\* ratio (annualized return over maximum drawdown magnitude).
CalculateValue(k) == IF k \in ruinous THEN 0 ELSE calmar[k]

\* a slip of the comparison: a later candidate of equal score replaces the best
TakesCandidate_OrEqual(value, best, kelly) == value >= best \/ kelly = 0

\* line 347: value > max_return or max_kelly == 0.0
TakesCandidate(value, best, kelly) == value > best \/ kelly = 0

(* ---- the score vectors explored: three plateaus over the grid ---- *)
Plateaus(b1, b2, s1, s2, s3) ==
    [k \in 1..GridSize |-> IF k <= b1 THEN s1 ELSE IF k <= b2 THEN s2 ELSE s3]

CalmarVectors ==
    LET Marks == {0, 1, 49, 50, 99, GridSize}
        Levels == (-1)..MaxScore
    IN  {Plateaus(b1, b2, s1, s2, s3) :
            b1 \in Marks, b2 \in Marks, s1 \in Levels, s2 \in Levels, s3 \in Levels}

\* drawdown grows with the stake: the candidates from some k upwards are ruinous
RuinSets == {{k \in 1..GridSize : k >= from} : from \in {1, 51, GridSize, GridSize + 1}}

InitKelly ==
    /\ FitIdle
    /\ LabelsIdle
    /\ RunIdle
    /\ NextIdle
    /\ StakeIdle
    /\ PromptIdle
    /\ CfIdle
    /\ calmar \in CalmarVectors
    /\ ruinous \in RuinSets
    /\ kr_i = 0
    /\ max_return = 0
    /\ max_kelly = 0
    /\ kr_pc = "loop"
    /\ kr_result = 0
    /\ kr_series = 0
    /\ kr_prev = 0

\* lines 339-349, a pass that takes the candidate
KellyStepTake ==
    /\ kr_pc = "loop"
    /\ kr_i < GridSize
    /\ TakesCandidate(CalculateValue(TestKellyRatio(kr_i)), max_return, max_kelly)
    /\ max_return' = CalculateValue(TestKellyRatio(kr_i))
    /\ max_kelly' = TestKellyRatio(kr_i)
    /\ kr_i' = kr_i + 1
    /\ UNCHANGED <<calmar, ruinous, kr_pc, kr_result, kr_series, kr_prev>>
    /\ UNCHANGED notKelly

\* lines 339-349, a pass that keeps the best so far
KellyStepSkip ==
    /\ kr_pc = "loop"
    /\ kr_i < GridSize
    /\ ~TakesCandidate(CalculateValue(TestKellyRatio(kr_i)), max_return, max_kelly)
    /\ kr_i' = kr_i + 1
    /\ UNCHANGED <<calmar, ruinous, max_return, max_kelly, kr_pc, kr_result,
                   kr_series, kr_prev>>
    /\ UNCHANGED notKelly

\* lines 350-353: self._returns = calculate_returns(max_kelly, ...); return max_kelly
KellyFinish ==
    /\ kr_pc = "loop"
    /\ kr_i = GridSize
    /\ kr_series' = max_kelly
    /\ kr_result' = max_kelly
    /\ kr_pc' = "done"
    /\ UNCHANGED <<calmar, ruinous, kr_i, max_return, max_kelly, kr_prev>>
    /\ UNCHANGED notKelly

\* kelly_ratio is called again on the same table (lines 337-338 start afresh)
KellyAgain ==
    /\ kr_pc = "done"
    /\ kr_prev = 0
    /\ kr_prev' = kr_result
    /\ kr_i' = 0
    /\ max_return' = 0
    /\ max_kelly' = 0
    /\ kr_pc' = "loop"
    /\ UNCHANGED <<calmar, ruinous, kr_result, kr_series>>
    /\ UNCHANGED notKelly

NextKelly ==
    \/ KellyStepTake
    \/ KellyStepSkip
    \/ KellyFinish
    \/ KellyAgain

SpecKelly == InitKelly /\ [][NextKelly]_vars

(* ======================= Strategy.fit: make_y ========================= *)
\* find_team_count(df): the number of participants of every event
TeamCount(y) == Cardinality(DOMAIN y[1])

\* the last index of the maximum, where np.argmax returns the first
ArgMax_Last(row) ==
    CHOOSE i \in DOMAIN row :
        /\ \A j \in DOMAIN row : row[j] <= row[i]
        /\ \A j \in DOMAIN row : j > i => row[j] < row[i]

\* np.argmax(y.to_numpy(), axis=1) for one row: the first index of the maximum
ArgMax(row) ==
    CHOOSE i \in DOMAIN row :
        /\ \A j \in DOMAIN row : row[j] <= row[i]
        /\ \A j \in DOMAIN row : j < i => row[j] < row[i]

\* np.argpartition(a, kth) raises ValueError unless -n <= kth < n, n the length
\* of the last axis
KthInBounds(n, kth) == -n <= kth /\ kth < n

\* One row of np.argpartition(y.to_numpy(), kth) (axis=-1): a permutation of the
\* row's indices with the kth smallest in place. The order inside the two parts
\* is unspecified; the stable ascending order taken here is one valid outcome,
\* and every outcome holds each index exactly once.
ArgPartitionRow(row) ==
    LET n == Cardinality(DOMAIN row)
        Rank(t) == Cardinality({u \in DOMAIN row :
                                   row[u] < row[t] \/ (row[u] = row[t] /\ u < t)})
    IN  [j \in 0..(n - 1) |-> CHOOSE t \in DOMAIN row : Rank(t) = j]

\* np.argpartition(y.to_numpy(), kth): one permuted row per event
ArgPartition(y) == [r \in DOMAIN y |-> ArgPartitionRow(y[r])]

\* a[-p:] for a two-dimensional array a: its last p ROWS
LastRows(a, p) ==
    LET from == IF p >= Len(a) THEN 1 ELSE Len(a) - p + 1
    IN  SubSeq(a, from, Len(a))

\* `i in ind` for a numpy array ind: i equals some entry of the array
InArray(i, ind) == \E r \in DOMAIN ind : \E j \in DOMAIN ind[r] : ind[r][j] = i

\* lines 367-371: away_win = bool(argmax of the event's two points)
AwayWin(y) == [r \in DOMAIN y |-> ArgMax(y[r]) # 0]

\* lines 372-375: ind = argpartition(...)[-place:]; the column of team i is the
\* one scalar `i in ind` on every row
PlaceLabels(y, p) ==
    LET ind == LastRows(ArgPartition(y), p)
    IN  [r \in DOMAIN y |-> [i \in 0..(TeamCount(y) - 1) |-> InArray(i, ind)]]

(* ---- the point tables explored ---- *)
Points == {5, 8, 9, 10}

Reversed(row) ==
    LET n == Cardinality(DOMAIN row) IN [i \in DOMAIN row |-> row[n - 1 - i]]

PointTables ==
    UNION {{<<r>> : r \in [0..(t - 1) -> Points]}
               \cup {<<r, Reversed(r)>> : r \in [0..(t - 1) -> Points]} :
              t \in 2..MaxTeams}

InitLabels ==
    /\ FitIdle
    /\ KellyIdle
    /\ RunIdle
    /\ NextIdle
    /\ StakeIdle
    /\ PromptIdle
    /\ CfIdle
    /\ y_points \in PointTables
    /\ place \in 1..MaxPlace
    /\ labels = None
    /\ lab_pc = "start"
    /\ lab_error = "none"

\* lines 367-371: two participants
MakeYTwoTeams ==
    /\ lab_pc = "start"
    /\ TeamCount(y_points) = 2
    /\ labels' = AwayWin(y_points)
    /\ lab_pc' = "labelled"
    /\ UNCHANGED <<y_points, place, lab_error>>
    /\ UNCHANGED notLabels

\* lines 372-375: more than two participants, the partition index in bounds
MakeYPlace ==
    /\ lab_pc = "start"
    /\ TeamCount(y_points) # 2
    /\ KthInBounds(TeamCount(y_points), -place)
    /\ labels' = PlaceLabels(y_points, place)
    /\ lab_pc' = "labelled"
    /\ UNCHANGED <<y_points, place, lab_error>>
    /\ UNCHANGED notLabels

\* line 372: np.argpartition raises, and fit with it
MakeYRaises ==
    /\ lab_pc = "start"
    /\ TeamCount(y_points) # 2
    /\ ~KthInBounds(TeamCount(y_points), -place)
    /\ lab_error' = "ValueError"
    /\ lab_pc' = "raised"
    /\ UNCHANGED <<y_points, place, labels>>
    /\ UNCHANGED notLabels

\* lines 378-381: self._wt.fit(x_df, y=y)
Train ==
    /\ lab_pc = "labelled"
    /\ lab_pc' = "trained"
    /\ UNCHANGED <<y_points, place, labels, lab_error>>
    /\ UNCHANGED notLabels

NextLabels ==
    \/ MakeYTwoTeams
    \/ MakeYPlace
    \/ MakeYRaises
    \/ Train

SpecLabels == InitLabels /\ [][NextLabels]_vars

(* ================== the objects and files of a run ==================== *)
(* An operation maps a world [disk, strat, port, fw, raised, out, ran] to  *)
(* the world it leaves; `raised` names the exception that ended it, if    *)
(* any, `out` the table whose processed features _process returned, and   *)
(* `ran` whether the processing pipeline ran.                             *)

World == [disk |-> disk, strat |-> strat, port |-> port, fw |-> fit_weights,
          raised |-> "none", out |-> NoTable, ran |-> FALSE]

Raise(w, e) == [w EXCEPT !.raised = e]

\* the participants per event of a table (find_team_count)
TeamsOf(t) == IF ToCsv(t) = ToCsv("t1") THEN 2 ELSE 3

\* the places a caller passes: the default 1 and one above every table's teams
PlaceArgs == {1, MaxTeams}

\* the daily return series Strategy.returns yields for a table
SeriesOf(t) == [i \in 1..MaxDates |-> IF t = "t1" THEN i ELSE -i]

\* the name of the cache file of a table: processed_{df_hash}.parquet
CachePath(t) == <<"sha256", ToCsv(t)>>


\* a condition that looks at the file alone: an existing config always wins
ReadsConfig_FileOnly(cfg, p) == cfg # NoPlace

\* line 295: os.path.exists(config_filename) and place is None
ReadsConfig(cfg, p) == cfg # NoPlace /\ p = NoPlace

\* a constructor that does not load the persisted table (lines 276-278 left out)
StrategyInit_NoLoad(w, n, p) ==
    LET cfg == w.disk.config[n]
        reads == ReadsConfig(cfg, p)
        pl == IF reads THEN cfg ELSE p
        d == IF ~reads /\ p # NoPlace THEN [w.disk EXCEPT !.config[n] = p] ELSE w.disk
    IN  [w EXCEPT !.disk = d,
                  !.strat[n] = [live |-> TRUE,
                                df |-> NoTable,
                                place |-> IF pl # NoPlace THEN pl ELSE 1,
                                returns |-> NoTable]]

(* ---- Strategy ---- *)
\* Strategy.__init__(name, place), strategy.py:270-304; p = NoPlace is place=None
StrategyInit(w, n, p) ==
    LET cfg == w.disk.config[n]
        reads == ReadsConfig(cfg, p)
        pl == IF reads THEN cfg ELSE p
        d == IF ~reads /\ p # NoPlace THEN [w.disk EXCEPT !.config[n] = p] ELSE w.disk
    IN  [w EXCEPT !.disk = d,
                  !.strat[n] = [live |-> TRUE,
                                df |-> w.disk.df[n],
                                place |-> IF pl # NoPlace THEN pl ELSE 1,
                                returns |-> NoTable]]

\* Strategy.df setter, lines 314-319
DfSetter(w, n, t) ==
    [w EXCEPT !.disk.df[n] = t, !.strat[n].df = t]

\* lines 449-452 on a table that is there: read the cache file if it exists
\* (`of` is the table whose features the file holds), else run the pipeline
\* and write the file (lines 454-958)
ReadOrProcess(w, n) ==
    LET df == w.strat[n].df
        hits == {e \in w.disk.cache[n] : e.path = CachePath(df)}
    IN  IF hits # {}
        THEN [w EXCEPT !.out = (CHOOSE e \in hits : TRUE).of]
        ELSE [w EXCEPT !.disk.cache[n] = @ \cup {[path |-> CachePath(df), of |-> df]},
                       !.out = df,
                       !.ran = TRUE]

\* the table check of lines 446-447 left out
StrategyProcess_Unchecked(w, n) == ReadOrProcess(w, n)

\* Strategy._process, lines 444-452 and 944-958
StrategyProcess(w, n) ==
    IF w.strat[n].df = NoTable THEN Raise(w, "ValueError")
    ELSE ReadOrProcess(w, n)

\* make_y inside Strategy.fit, lines 365-377: does np.argpartition raise?
MakeYRaisesFor(t, pl) == TeamsOf(t) # 2 /\ ~KthInBounds(TeamsOf(t), -pl)

\* Strategy.fit, lines 355-381
StrategyFit(w, n) ==
    IF w.strat[n].df = NoTable THEN Raise(w, "ValueError")
    ELSE LET w1 == StrategyProcess(w, n)
         IN  IF MakeYRaisesFor(w1.strat[n].df, w1.strat[n].place)
             THEN Raise(w1, "ValueError")
             ELSE w1

\* Strategy.predict, lines 383-418
StrategyPredict(w, n) ==
    IF w.strat[n].df = NoTable THEN Raise(w, "ValueError")
    ELSE StrategyProcess(w, n)

\* Strategy.kelly_ratio, lines 326-353
StrategyKellyRatio(w, n) ==
    IF w.strat[n].df = NoTable THEN Raise(w, "ValueError")
    ELSE [w EXCEPT !.disk.returns_df[n] = w.strat[n].df,
                   !.strat[n].returns = w.strat[n].df]

\* Strategy.returns, lines 420-427
StrategyReturns(w, n) ==
    LET w1 == StrategyPredict(w, n)
    IN  IF w1.raised # "none" THEN w1 ELSE StrategyKellyRatio(w1, n)

\* Strategy.next, lines 429-442
StrategyNext(w, n) ==
    LET w1 == StrategyPredict(w, n)
    IN  IF w1.raised # "none" THEN w1 ELSE StrategyKellyRatio(w1, n)

RECURSIVE InitAll(_, _)
\* [Strategy(x) for x in names]
InitAll(w, names) ==
    IF names = <<>> THEN w
    ELSE InitAll(StrategyInit(w, Head(names), NoPlace), Tail(names))

RECURSIVE ReturnsAll(_, _)
\* [x.returns() for x in self._strategies]: the first exception ends the list
ReturnsAll(w, names) ==
    IF names = <<>> \/ w.raised # "none" THEN w
    ELSE ReturnsAll(StrategyReturns(w, Head(names)), Tail(names))

(* ---- Portfolio ---- *)
\* {x.name: 0.0 for x in strategies}: one key per name, in first-seen order
RECURSIVE ZeroWeights(_)
ZeroWeights(names) ==
    IF names = <<>> THEN <<>>
    ELSE LET rest == ZeroWeights(SubSeq(names, 1, Len(names) - 1))
             last == names[Len(names)]
         IN  IF \E i \in DOMAIN rest : rest[i].name = last THEN rest
             ELSE Append(rest, [name |-> last, weight |-> 0])

KeysOf(ws) == [i \in DOMAIN ws |-> ws[i].name]

\* Portfolio.__init__, portfolio.py:29-39
PortfolioInit(w) ==
    IF w.disk.portfolio.exists
    THEN LET ws == w.disk.portfolio.strategies
             w1 == InitAll(w, KeysOf(ws))
         IN  [w1 EXCEPT !.port = [live |-> TRUE, strategies |-> KeysOf(ws), weights |-> ws]]
    ELSE [w EXCEPT !.port = [live |-> TRUE, strategies |-> <<>>, weights |-> <<>>]]

\* a setter that adds to the persisted membership instead of replacing it
StrategiesSetter_Merge(w, names) ==
    LET old == IF w.disk.portfolio.exists THEN KeysOf(w.disk.portfolio.strategies) ELSE <<>>
    IN  [w EXCEPT !.port.strategies = names,
                  !.port.weights = ZeroWeights(old \o names),
                  !.disk.portfolio = [exists |-> TRUE, strategies |-> ZeroWeights(old \o names)]]

\* Portfolio.strategies setter, lines 46-58
StrategiesSetter(w, names) ==
    [w EXCEPT !.port.strategies = names,
              !.port.weights = ZeroWeights(names),
              !.disk.portfolio = [exists |-> TRUE, strategies |-> ZeroWeights(names)]]

\* line 63: one column per strategy, in list order
ReturnMatrix(w, names) ==
    [i \in 1..MaxDates |->
        [dt |-> i, v |-> [c \in DOMAIN names |-> SeriesOf(w.strat[names[c]].returns)[i]]]]

\* the weights the loop of lines 69-85 applies to its last date
LastWeights(m) ==
    LET dt == m[Len(m)].dt
    IN  IF UseFallback(History(m, dt)) THEN EqualWeights(m)
        ELSE Optimization(OptimizerInput(m, dt))

\* Portfolio.fit, lines 60-89
PortfolioFit(w) ==
    LET w1 == ReturnsAll(w, w.port.strategies)
    IN  IF w1.raised # "none" THEN w1
        ELSE LET lw == LastWeights(ReturnMatrix(w1, w1.port.strategies))
             IN  [w1 EXCEPT !.fw = [c \in DOMAIN lw |->
                                       [name |-> w1.port.strategies[c], weight |-> lw[c]]]]

\* Portfolio.next_bets, lines 120-144: strategy.next() returns a tuple, which
\* has no iterrows
PortfolioNextBets(w) ==
    IF w.port.strategies = <<>> THEN w
    ELSE LET w1 == StrategyNext(w, Head(w.port.strategies))
         IN  IF w1.raised # "none" THEN w1 ELSE Raise(w1, "AttributeError")

(* ---- the command line, __main__.py:86-119 ---- *)
\* a new process holds no object
NewProcess(w) ==
    [w EXCEPT !.strat = [n \in Names |-> NoStrategy], !.port = NoPortfolio, !.fw = None]

\* args.place for a command line that gives --place p, or no --place
\* (NoPlace): --place is declared with default=1 (lines 52-58), so args.place
\* is never None
ArgsPlace(p) == IF p = NoPlace THEN 1 ELSE p

\* Function.TRAIN, lines 86-93; t is the table read from stdin
MainTrain(w, n, p, cached, t) ==
    LET w1 == StrategyInit(NewProcess(w), n, p)
        w2 == IF cached THEN w1 ELSE DfSetter(w1, n, t)
    IN  StrategyFit(w2, n)

\* Function.PORTFOLIO, lines 94-105. args.strategy (nargs="*", lines 34-39) is
\* None when --strategy is omitted, and iterating None at line 97 raises
\* TypeError; a --strategy with no value gives the empty list.
MainPortfolio(w, arg) ==
    IF ~arg.given THEN Raise(NewProcess(w), "TypeError")
    ELSE LET names == arg.values
             w1 == InitAll(NewProcess(w), names)
         IN  IF names = <<>> THEN Raise(w1, "ValueError")
             ELSE PortfolioFit(StrategiesSetter(PortfolioInit(w1), names))

\* Function.NEXT, lines 106-117
MainNext(w) == PortfolioNextBets(PortfolioInit(NewProcess(w)))

(* ---- the actions ---- *)
Commit(w, op, target) ==
    /\ disk' = w.disk
    /\ strat' = w.strat
    /\ port' = w.port
    /\ fit_weights' = w.fw
    /\ result' = [op |-> op, target |-> target, raised |-> w.raised,
                  value |-> w.out, ran |-> w.ran]

\* args.strategy: --strategy omitted, or given with a list of values
StrategyArgs ==
    {[given |-> FALSE, values |-> <<>>]}
    \cup {[given |-> TRUE, values |-> l] :
            l \in {<<>>, <<"a">>, <<"b">>, <<"a", "b">>, <<"b", "a">>}}

Init ==
    /\ FitIdle
    /\ KellyIdle
    /\ LabelsIdle
    /\ RunIdle
    /\ NextIdle
    /\ StakeIdle
    /\ PromptIdle
    /\ CfIdle

NewStrategy(n, p) ==
    /\ Commit(StrategyInit(World, n, p), "init", n)
    /\ UNCHANGED notRun

SetDf(n, t) ==
    /\ strat[n].live
    /\ Commit(DfSetter(World, n, t), "df", n)
    /\ UNCHANGED notRun

CallProcess(n) ==
    /\ strat[n].live
    /\ Commit(StrategyProcess(World, n), "_process", n)
    /\ UNCHANGED notRun

CallFit(n) ==
    /\ strat[n].live
    /\ Commit(StrategyFit(World, n), "fit", n)
    /\ UNCHANGED notRun

CallPredict(n) ==
    /\ strat[n].live
    /\ Commit(StrategyPredict(World, n), "predict", n)
    /\ UNCHANGED notRun

CallKellyRatio(n) ==
    /\ strat[n].live
    /\ Commit(StrategyKellyRatio(World, n), "kelly_ratio", n)
    /\ UNCHANGED notRun

CallReturns(n) ==
    /\ strat[n].live
    /\ Commit(StrategyReturns(World, n), "returns", n)
    /\ UNCHANGED notRun

CallNext(n) ==
    /\ strat[n].live
    /\ Commit(StrategyNext(World, n), "next", n)
    /\ UNCHANGED notRun

NewPortfolio ==
    /\ Commit(PortfolioInit(World), "Portfolio", "-")
    /\ UNCHANGED notRun

SetStrategies(names) ==
    /\ port.live
    /\ \A i \in DOMAIN names : strat[names[i]].live
    /\ Commit(StrategiesSetter(World, names), "strategies", "-")
    /\ UNCHANGED notRun

CallPortfolioFit ==
    /\ port.live
    /\ port.strategies # <<>>
    /\ Commit(PortfolioFit(World), "portfolio_fit", "-")
    /\ UNCHANGED notRun

CallNextBets ==
    /\ port.live
    /\ Commit(PortfolioNextBets(World), "next_bets", "-")
    /\ UNCHANGED notRun

\* p = NoPlace is a command line without --place
RunTrain(n, p, cached, t) ==
    /\ Commit(MainTrain(World, n, ArgsPlace(p), cached, t),
              IF cached THEN "main_train_cached" ELSE "main_train", n)
    /\ UNCHANGED notRun

RunPortfolio(arg) ==
    /\ Commit(MainPortfolio(World, arg), "main_portfolio", "-")
    /\ UNCHANGED notRun

RunNext ==
    /\ Commit(MainNext(World), "main_next", "-")
    /\ UNCHANGED notRun

\* the command line: every run is a new process over the files left behind
Next ==
    \/ \E n \in Names, p \in PlaceArgs \cup {NoPlace}, t \in Tables : RunTrain(n, p, FALSE, t)
    \/ \E n \in Names, p \in PlaceArgs \cup {NoPlace} : RunTrain(n, p, TRUE, NoTable)
    \/ \E arg \in StrategyArgs : RunPortfolio(arg)
    \/ RunNext

Spec == Init /\ [][Next]_vars

\* one process driving the objects of one strategy and its portfolio directly
ApiNames == {"a"}

NextApi ==
    \/ \E n \in ApiNames, p \in PlaceArgs \cup {NoPlace} : NewStrategy(n, p)
    \* t1x has the cells of t1 and other attrs (df.attrs, the column lists the
    \* pipeline is configured with)
    \/ \E n \in ApiNames, t \in Tables \cup {"t1x"} : SetDf(n, t)
    \/ \E n \in ApiNames : CallProcess(n)
    \/ \E n \in ApiNames : CallFit(n)
    \/ \E n \in ApiNames : CallPredict(n)
    \/ \E n \in ApiNames : CallKellyRatio(n)
    \/ \E n \in ApiNames : CallReturns(n)
    \/ \E n \in ApiNames : CallNext(n)
    \/ NewPortfolio
    \/ \E names \in {<<>>, <<"a">>} : SetStrategies(names)
    \/ CallPortfolioFit
    \/ CallNextBets

SpecApi == Init /\ [][NextApi]_vars

(* ============ Strategy.next and Portfolio.next_bets =================== *)
\* line 438: start_dt = now; times are whole days counted from it
Now == 0
\* line 439: datetime.timedelta(days=3.0)
LookaheadDays == 3

\* a slip of the comparison: an event starting exactly now is kept
AfterStart_OrAt(df, start) == SelectSeq(df, LAMBDA r : r.dt >= start)

\* line 440: df[df[dt_column] > start_dt]
AfterStart(df, start) == SelectSeq(df, LAMBDA r : r.dt > start)

\* line 441: df[df[dt_column] <= end_dt]
UntilEnd(df, end) == SelectSeq(df, LAMBDA r : r.dt <= end)

\* what the caller of next() gets when only the table is returned
StrategyNextResult_TableOnly(df, k) == [kind |-> "DataFrame", df |-> df, kelly |-> k]

\* line 442: return df, self._wt.feature_importances(df=df), kelly_ratio
StrategyNextResult(df, k) == [kind |-> "tuple", df |-> df, kelly |-> k]

\* the multiplier kelly_ratio(df) finds for a strategy, in hundredths
KellyOf(n) == IF n = "a" THEN GridSize ELSE GridSize \div 2

\* self._weights[strategy.name], in N-ths
WeightOf(n) == IF n = "a" THEN 1 ELSE 0

\* portfolio.py:128-143: the record appended for one row
BetOf(n, row) ==
    [strategy |-> n,
     kelly |-> [kind |-> "method", of |-> n],
     weight |-> WeightOf(n),
     probs |-> row.probs,
     id |-> row.id,
     dt |-> row.dt]

\* portfolio.py:127-143: one record per row of the table, in row order
BetsOf(n, df) == [i \in DOMAIN df |-> BetOf(n, df[i])]

(* ---- the prediction tables explored ---- *)
\* events per prediction table
MaxRows == 3

\* event times before now, now, inside the horizon, its last instant, after
\* it; the predicted probabilities of the two participants: both, none, one
PredTables ==
    LET EventTimes == {Now - 1, Now, Now + 1, Now + LookaheadDays, Now + LookaheadDays + 1}
        ProbPatterns == {<<Num(60), Num(40)>>, <<NaN, NaN>>, <<Num(60), NaN>>}
    IN  UNION {{[i \in 1..n |-> [id |-> i, dt |-> f[i].dt, probs |-> f[i].probs]] :
                   f \in {g \in [1..n -> [dt : EventTimes, probs : ProbPatterns]] :
                             \A i \in 1..(n - 1) : g[i].dt <= g[i + 1].dt}} :
               n \in 0..MaxRows}

InitNext ==
    /\ FitIdle
    /\ KellyIdle
    /\ LabelsIdle
    /\ RunIdle
    /\ StakeIdle
    /\ PromptIdle
    /\ CfIdle
    /\ pred \in PredTables
    /\ nb_strategies \in {<<>>, <<"a">>, <<"b", "a">>}
    /\ next_df = <<>>
    /\ next_out = None
    /\ nb_i = 1
    /\ bets = <<>>
    /\ nb_pc = "call"
    /\ nb_error = "none"

\* portfolio.py:124-125: the loop reaches a strategy and calls its next();
\* strategy.py:435-439: the table is predicted and the window is set
NextBetsCallNext ==
    /\ nb_pc = "call"
    /\ nb_i <= Len(nb_strategies)
    /\ next_df' = pred
    /\ next_out' = None
    /\ nb_pc' = "start"
    /\ UNCHANGED <<pred, nb_strategies, nb_i, bets, nb_error>>
    /\ UNCHANGED notNext

\* strategy.py:440
NextAfterStart ==
    /\ nb_pc = "start"
    /\ next_df' = AfterStart(next_df, Now)
    /\ nb_pc' = "end"
    /\ UNCHANGED <<pred, next_out, nb_strategies, nb_i, bets, nb_error>>
    /\ UNCHANGED notNext

\* strategy.py:441-442
NextUntilEndReturn ==
    /\ nb_pc = "end"
    /\ next_df' = UntilEnd(next_df, Now + LookaheadDays)
    /\ next_out' = StrategyNextResult(UntilEnd(next_df, Now + LookaheadDays),
                                      KellyOf(nb_strategies[nb_i]))
    /\ nb_pc' = "returned"
    /\ UNCHANGED <<pred, nb_strategies, nb_i, bets, nb_error>>
    /\ UNCHANGED notNext

\* portfolio.py:126-143: the rows of what next() returned become records; a
\* value without iterrows (it exists on a DataFrame only) ends next_bets with
\* AttributeError
NextBetsRows ==
    /\ nb_pc = "returned"
    /\ IF next_out.kind = "DataFrame"
       THEN /\ bets' = bets \o BetsOf(nb_strategies[nb_i], next_out.df)
            /\ nb_i' = nb_i + 1
            /\ nb_pc' = "call"
            /\ nb_error' = nb_error
       ELSE /\ bets' = bets
            /\ nb_i' = nb_i
            /\ nb_pc' = "raised"
            /\ nb_error' = "AttributeError"
    /\ UNCHANGED <<pred, next_df, next_out, nb_strategies>>
    /\ UNCHANGED notNext

\* portfolio.py:144: return bets
NextBetsReturn ==
    /\ nb_pc = "call"
    /\ nb_i > Len(nb_strategies)
    /\ nb_pc' = "done"
    /\ UNCHANGED <<pred, next_df, next_out, nb_strategies, nb_i, bets, nb_error>>
    /\ UNCHANGED notNext

NextNext ==
    \/ NextBetsCallNext
    \/ NextAfterStart
    \/ NextUntilEndReturn
    \/ NextBetsRows
    \/ NextBetsReturn

SpecNext == InitNext /\ [][NextNext]_vars

(* ====== the stake fractions of one date (augment_kelly_fractions, ===== *)
(* ====== calculate_returns)                                        ===== *)
\* probabilities and prices are written in tenths: 1.0 is 10
One == 10

\* the raw fraction without its floor at 0
RawKelly_NoFloor(p, price) == One * p - (One - p) * price

\* f = max(p - (1 - p) / bet_prob, 0) with bet_prob = 1 / price, in hundredths
RawKelly(p, price) ==
    IF One * p - (One - p) * price >= 0 THEN One * p - (One - p) * price ELSE 0

\* every raw fraction times the candidate k, in ten-thousandths
ScaleByK(fs, k) == [i \in DOMAIN fs |-> fs[i] * k]

\* 1.0 in ten-thousandths
Capital == One * One * GridSize

\* every fraction divided by the sum, whatever the sum
Normalize_Always(fs) ==
    LET total == SumSeq(fs)
    IN  IF total > 0 THEN [i \in DOMAIN fs |-> [num |-> fs[i], den |-> total]]
        ELSE [i \in DOMAIN fs |-> [num |-> fs[i], den |-> Capital]]

\* the sum of the date's fractions above 1.0: every fraction divided by that
\* sum; otherwise the fractions unchanged
Normalize(fs) ==
    LET total == SumSeq(fs)
    IN  IF total > Capital THEN [i \in DOMAIN fs |-> [num |-> fs[i], den |-> total]]
        ELSE [i \in DOMAIN fs |-> [num |-> fs[i], den |-> Capital]]

\* the events of the date left after the data-quality skip: an event takes
\* part in the allocation when its backed outcome has both a probability and a
\* price
Eligible(evts) == SelectSeq(evts, LAMBDA e : e.has = "both")

\* the common denominator of the date's stake fractions
Den(st) == IF st = <<>> THEN Capital ELSE st[1].den

\* one settled event: price * stake when the backed outcome won, - stake
\* otherwise; the price is in tenths, so the numerator is in tenths of num
EventPnl(e, stake) == IF e.won THEN e.price * stake.num ELSE -(One * stake.num)

\* a sum over every event of the date, skipped ones included: one event without
\* a price or a probability makes the date's P&L NaN
DailyReturn_Propagates(evts, st) ==
    LET settled == Eligible(evts)
    IN  IF Len(settled) < Len(evts) THEN NaN
        ELSE Num([num |-> SumSeq([i \in DOMAIN settled |-> EventPnl(settled[i], st[i])]),
                  den |-> One * Den(st)])

\* the date's P&L: the sum over the eligible events, st their stake fractions
DailyReturn(evts, st) ==
    LET settled == Eligible(evts)
    IN  Num([num |-> SumSeq([i \in DOMAIN settled |-> EventPnl(settled[i], st[i])]),
             den |-> One * Den(st)])

(* ---- the dates explored ---- *)
\* simultaneous events of the date
MaxEvents == 3

\* probability and price of the backed outcome, in tenths: 0 at 2.0, 0.6 at 1.5
\* (p = (1 - p) / bet_prob exactly), 0.6 at 3.0, 0.8 at 1.5, 0.8 at 2.0, 0.9 at
\* 3.0 and 1 at 1.5. An event with both values, one without a price and one
\* without a probability (the value that is missing is not read), each won or
\* lost
EventShapes ==
    {[p |-> o[1], price |-> o[2], has |-> "both", won |-> w] :
        o \in {<<0, 20>>, <<6, 15>>, <<6, 30>>, <<8, 15>>, <<8, 20>>, <<9, 30>>,
               <<One, 15>>},
        w \in BOOLEAN}
    \cup {[p |-> 9, price |-> 0, has |-> "no_price", won |-> w] : w \in BOOLEAN}
    \cup {[p |-> 0, price |-> 30, has |-> "no_prob", won |-> w] : w \in BOOLEAN}

InitStake ==
    /\ FitIdle
    /\ KellyIdle
    /\ LabelsIdle
    /\ RunIdle
    /\ NextIdle
    /\ PromptIdle
    /\ CfIdle
    /\ events \in [1..MaxEvents -> EventShapes]
    /\ try_k \in {GridSize \div 2, GridSize}    \* the candidates 0.50 and 1.00
    /\ raw = <<>>
    /\ scaled_fs = <<>>
    /\ stakes = <<>>
    /\ pnl = NaN
    /\ stake_pc = "start"

\* augment_kelly_fractions: the raw fraction of every eligible event
StakeRaw ==
    /\ stake_pc = "start"
    /\ raw' = [i \in DOMAIN Eligible(events) |->
                  RawKelly(Eligible(events)[i].p, Eligible(events)[i].price)]
    /\ stake_pc' = "raw"
    /\ UNCHANGED <<events, try_k, scaled_fs, stakes, pnl>>
    /\ UNCHANGED notStake

\* calculate_returns(k, ...): the fractions scaled by the candidate
StakeScale ==
    /\ stake_pc = "raw"
    /\ scaled_fs' = ScaleByK(raw, try_k)
    /\ stake_pc' = "scaled"
    /\ UNCHANGED <<events, try_k, raw, stakes, pnl>>
    /\ UNCHANGED notStake

\* calculate_returns(k, ...): the date's fractions normalized to the capital
StakeNormalize ==
    /\ stake_pc = "scaled"
    /\ stakes' = Normalize(scaled_fs)
    /\ stake_pc' = "normalized"
    /\ UNCHANGED <<events, try_k, raw, scaled_fs, pnl>>
    /\ UNCHANGED notStake

\* calculate_returns(k, ...): the date's events settled into its P&L
StakeSettle ==
    /\ stake_pc = "normalized"
    /\ pnl' = DailyReturn(events, stakes)
    /\ stake_pc' = "settled"
    /\ UNCHANGED <<events, try_k, raw, scaled_fs, stakes>>
    /\ UNCHANGED notStake

NextStake ==
    \/ StakeRaw
    \/ StakeScale
    \/ StakeNormalize
    \/ StakeSettle

SpecStake == InitStake /\ [][NextStake]_vars

(* ============ Strategy.predict: the odds prompt (lines 395-415) ======== *)
\* line 396: today = (datetime.today() - timedelta(days=1)).date(), in days
\* from the day of the call
today == Now - 1

\* float(s) for the line s read by input(): a decimal literal gives its value
\* (in tenths), "nan" gives NaN without raising, any other text raises
\* ValueError
Float(s) ==
    CASE s = "2.5" -> [raised |-> FALSE, value |-> Num(25)]
      [] s = "nan" -> [raised |-> FALSE, value |-> NaN]
      [] OTHER -> [raised |-> TRUE, value |-> NaN]

\* line 397: x_df[x_df[GAME_DT_COLUMN].dt.date >= today], with its index
\* (the rows of df from position i on)
RECURSIVE FutureRows(_, _)
FutureRows(df, i) ==
    IF i > Len(df) THEN <<>>
    ELSE IF df[i].day >= today
         THEN <<[idx |-> i, row |-> df[i]]>> \o FutureRows(df, i + 1)
         ELSE FutureRows(df, i + 1)

(* ---- the tables explored ---- *)
\* rows of the feature table
MaxPredictRows == 2

\* entries refused during one call
MaxInvalid == 2

\* odds of the two participants: both there, the first missing, both missing;
\* rows dated the day before `today`, on it, and the day after
PredictTables ==
    LET OddsPatterns == {[t \in 0..1 |-> o[t + 1]] :
                            o \in {<<Num(20), Num(18)>>, <<NaN, Num(18)>>, <<NaN, NaN>>}}
    IN  UNION {[1..n -> [day : {today - 1, today, today + 1}, odds : OddsPatterns]] :
                  n \in 1..MaxPredictRows}

InitPredict ==
    /\ FitIdle
    /\ KellyIdle
    /\ LabelsIdle
    /\ RunIdle
    /\ NextIdle
    /\ StakeIdle
    /\ CfIdle
    /\ x_df \in PredictTables
    /\ x_before = x_df
    /\ future_rows = FutureRows(x_df, 1)
    /\ pr_i = 1
    /\ pr_team = 0
    /\ pr_invalid = 0
    /\ pr_pc = "loop"

\* the next pass of the loops of lines 398-399
Advance ==
    IF pr_team + 1 < TeamCount(x_df)
    THEN pr_i' = pr_i /\ pr_team' = pr_team + 1
    ELSE pr_i' = pr_i + 1 /\ pr_team' = 0

\* line 401 false: the odds of the row are there
PredictKeep ==
    /\ pr_pc = "loop"
    /\ pr_i <= Len(future_rows)
    /\ future_rows[pr_i].row.odds[pr_team] # NaN
    /\ Advance
    /\ UNCHANGED <<x_df, x_before, future_rows, pr_invalid, pr_pc>>
    /\ UNCHANGED notPrompt

\* line 401 true: the loop of line 402 is entered and input() waits
PredictAsk ==
    /\ pr_pc = "loop"
    /\ pr_i <= Len(future_rows)
    /\ future_rows[pr_i].row.odds[pr_team] = NaN    \* pd.isna(row.get(odds_col))
    /\ pr_pc' = "prompt"
    /\ UNCHANGED <<x_df, x_before, future_rows, pr_i, pr_team, pr_invalid>>
    /\ UNCHANGED notPrompt

\* lines 405-411: float() takes the entry, the cell is assigned, break
EnterOdds(entry) ==
    /\ pr_pc = "prompt"
    /\ ~Float(entry).raised
    /\ x_df' = [x_df EXCEPT ![future_rows[pr_i].idx].odds[pr_team] = Float(entry).value]
    /\ Advance
    /\ pr_pc' = "loop"
    /\ UNCHANGED <<x_before, future_rows, pr_invalid>>
    /\ UNCHANGED notPrompt

\* lines 412-413: float() raises ValueError, the message is printed and the
\* loop of line 402 prompts again
EnterInvalid(entry) ==
    /\ pr_pc = "prompt"
    /\ Float(entry).raised
    /\ pr_invalid < MaxInvalid
    /\ pr_invalid' = pr_invalid + 1
    /\ UNCHANGED <<x_df, x_before, future_rows, pr_i, pr_team, pr_pc>>
    /\ UNCHANGED notPrompt

\* line 415: self._wt.transform(x_df)
PredictTransform ==
    /\ pr_pc = "loop"
    /\ pr_i > Len(future_rows)
    /\ pr_pc' = "transform"
    /\ UNCHANGED <<x_df, x_before, future_rows, pr_i, pr_team, pr_invalid>>
    /\ UNCHANGED notPrompt

NextPredict ==
    \/ PredictKeep
    \/ PredictAsk
    \* the lines an operator types at the prompt
    \/ \E entry \in {"2.5", "nan", "abc", ""} : EnterOdds(entry)
    \/ \E entry \in {"2.5", "nan", "abc", ""} : EnterInvalid(entry)
    \/ PredictTransform

SpecPredict == InitPredict /\ [][NextPredict]_vars

(* ========= CombinedFeature.process (combined_feature.py:50-71) ========= *)
\* a table is the set of its columns [name, cell]; one row is enough to tell a
\* finite number from inf, -inf and a missing value

\* lines 33-41: the default pretrain features, in their listed order
PretrainFeatures == <<"SkillFeature", "LagFeature", "TotalFeature", "MinFeature",
                      "SMAFeature", "DatetimeSubFeature", "OffensiveEfficiencyFeature">>

\* lines 43-46: the default posttrain features, in their listed order
PosttrainFeatures == <<"DatetimeFeature", "OrdinalFeature">>

\* feature.process(df): the table with the feature's own column added, whose
\* cell c is finite or infinite (a division by zero)
FeatureProcess(f, df, c) == df \cup {[name |-> f, cell |-> c]}

\* a selection that keeps every column
DropLookahead_Keep(df, la) == df

\* line 68: df[list(set(df.columns.values) - set(df.attrs[LOOKAHEAD]))]
DropLookahead(df, la) == {col \in df : col.name \notin la}

\* line 71: df.replace([np.inf, -np.inf], np.nan)
ReplaceInf(df) ==
    {[name |-> col.name, cell |-> IF col.cell \in {"inf", "-inf"} THEN "nan" ELSE col.cell] :
        col \in df}

\* the input tables explored: two columns, each finite or infinite, and the
\* lookahead lists the table may carry
InitCombined ==
    /\ FitIdle
    /\ KellyIdle
    /\ LabelsIdle
    /\ RunIdle
    /\ NextIdle
    /\ StakeIdle
    /\ PromptIdle
    /\ \E cells \in [{"points", "odds"} -> {"num", "inf", "-inf"}] :
           cf_df = {[name |-> n, cell |-> cells[n]] : n \in DOMAIN cells}
    /\ cf_lookahead \in {{}, {"points"}, {"points", "odds"}}
    /\ cf_i = 1
    /\ cf_applied = <<>>
    /\ cf_received = {}
    /\ cf_pc = "pretrain"

\* lines 66-67: one pass of the pretrain loop
ApplyPretrain(c) ==
    /\ cf_pc = "pretrain"
    /\ cf_i <= Len(PretrainFeatures)
    /\ cf_df' = FeatureProcess(PretrainFeatures[cf_i], cf_df, c)
    /\ cf_applied' = Append(cf_applied, PretrainFeatures[cf_i])
    /\ cf_i' = cf_i + 1
    /\ UNCHANGED <<cf_lookahead, cf_received, cf_pc>>
    /\ UNCHANGED notCf

\* line 68: the lookahead columns are removed
DropColumns ==
    /\ cf_pc = "pretrain"
    /\ cf_i > Len(PretrainFeatures)
    /\ cf_df' = DropLookahead(cf_df, cf_lookahead)
    /\ cf_i' = 1
    /\ cf_pc' = "posttrain"
    /\ UNCHANGED <<cf_lookahead, cf_applied, cf_received>>
    /\ UNCHANGED notCf

\* lines 69-70: one pass of the posttrain loop
ApplyPosttrain(c) ==
    /\ cf_pc = "posttrain"
    /\ cf_i <= Len(PosttrainFeatures)
    /\ cf_received' = cf_received \cup {col.name : col \in cf_df}
    /\ cf_df' = FeatureProcess(PosttrainFeatures[cf_i], cf_df, c)
    /\ cf_applied' = Append(cf_applied, PosttrainFeatures[cf_i])
    /\ cf_i' = cf_i + 1
    /\ UNCHANGED <<cf_lookahead, cf_pc>>
    /\ UNCHANGED notCf

\* line 71: the infinities are replaced and the table is returned
ReturnTable ==
    /\ cf_pc = "posttrain"
    /\ cf_i > Len(PosttrainFeatures)
    /\ cf_df' = ReplaceInf(cf_df)
    /\ cf_pc' = "returned"
    /\ UNCHANGED <<cf_lookahead, cf_i, cf_applied, cf_received>>
    /\ UNCHANGED notCf

NextCombined ==
    \/ \E c \in {"num", "inf"} : ApplyPretrain(c)
    \/ DropColumns
    \/ \E c \in {"num", "-inf"} : ApplyPosttrain(c)
    \/ ReturnTable

SpecCombined == InitCombined /\ [][NextCombined]_vars

(* ============================== claims ================================ *)

\* C1: no lookahead in Portfolio.fit. When the return matrix changes only in
\* rows from position `cut` on, every date whose earlier rows are all unchanged
\* (the dates at positions up to `cut`) is blended with the same weights as in
\* the fit before the change.
C1_NoLookahead ==
    cut > 0 =>
        \A i \in DOMAIN applied : i <= cut => applied[i] = prev_applied[i]

\* C2: equal-weight fallback. A date is blended with weight 1/N per strategy
\* (blended value = the sum of the date's N returns over N) exactly when the
\* rows strictly before it are empty or hold fewer than 10 distinct values;
\* otherwise the optimized policy is used. The earliest date always falls back.
C2_EqualWeightFallback ==
    \A i \in DOMAIN policy :
        LET d == returns[i].dt
            before == {j \in DOMAIN returns : returns[j].dt < d}
            distinct == {returns[j].v[c] : j \in before, c \in 1..NumStrategies}
            total == SumSeq(returns[i].v)
        IN  /\ policy[i] \in {"fallback", "optimized"}
            /\ policy[i] = "fallback" <=> (before = {} \/ Cardinality(distinct) < 10)
            /\ policy[i] = "fallback" =>
                   /\ applied[i] = [c \in 1..NumStrategies |-> 1]
                   /\ \E r \in Range(ret) : r.dt = d /\ r.port = Num(total)
            /\ before = {} => policy[i] = "fallback"

\* a finished fit in which a date after the first fell back on a non-empty
\* history and a later date was optimized
C2_Witness ==
    /\ fit_pc = "done"
    /\ \E i, j \in DOMAIN policy :
           /\ 1 < i /\ i < j
           /\ policy[i] = "fallback"
           /\ policy[j] = "optimized"
           /\ Cardinality(Unique(History(returns, returns[j].dt))) = 10

\* C4: kelly_ratio returns a member of the grid 0.01..1.00 whose score is the
\* highest of the grid, and the largest such member when several share it.
C4_LargestBestCandidate ==
    kr_pc = "done" =>
        /\ kr_result \in 1..100
        /\ \A k \in 1..100 :
               /\ CalculateValue(k) <= CalculateValue(kr_result)
               /\ CalculateValue(k) = CalculateValue(kr_result) => k <= kr_result

\* a finished search whose best score is shared by several candidates and is
\* not the score of the first candidate evaluated
C4_Witness ==
    /\ kr_pc = "done"
    /\ kr_result < 100
    /\ \E k \in 1..100 : k # kr_result /\ CalculateValue(k) = CalculateValue(kr_result)

\* C5: ruin guard. The search evaluates every candidate, and whenever some
\* candidate of the grid is not ruinous the k it returns is not ruinous.
C5_RuinGuard ==
    kr_pc = "done" =>
        /\ kr_i = 100
        /\ (\E k \in 1..100 : k \notin ruinous) => kr_result \notin ruinous

C9_PlaceAboveTeamsFails ==
    place > TeamCount(y_points) => lab_pc # "trained"

\* the finish order of an event: points descending, ties by input order
FinishRank(row, i) ==
    Cardinality({u \in DOMAIN row : row[u] > row[i] \/ (row[u] = row[i] /\ u < i)})

\* C10: place rule. In a multi-way table every event labels participant i a
\* winner exactly when i finishes within the top `place` of that same event,
\* so every event has exactly `place` winners.
C10_PlaceRule ==
    (lab_pc \in {"labelled", "trained"} /\ TeamCount(y_points) > 2) =>
        \A r \in DOMAIN y_points :
            /\ \A i \in DOMAIN y_points[r] :
                   labels[r][i] <=> FinishRank(y_points[r], i) < place
            /\ Cardinality({i \in DOMAIN y_points[r] : labels[r][i]}) = place

\* C3: after a successful Portfolio.fit the portfolio's weights, in memory and
\* in portfolio.json, are the weights the walk-forward loop last computed.
C3_FitStoresWeights ==
    (result.op = "main_portfolio" /\ result.raised = "none") =>
        /\ port.weights = fit_weights
        /\ disk.portfolio.strategies = fit_weights

\* C7: a run that fails leaves every persisted file as it was before the run.
C7_FailedRunLeavesFiles ==
    [][result'.raised # "none" => disk' = disk]_vars

\* the methods of Strategy that need the training table
TableMethod(n) ==
    \/ CallFit(n)
    \/ CallPredict(n)
    \/ CallReturns(n)
    \/ CallNext(n)
    \/ CallKellyRatio(n)
    \/ CallProcess(n)

\* C8: on a Strategy without a table, each of fit, predict, returns, next,
\* kelly_ratio and _process raises ValueError, writes no file and changes no
\* object.
C8_MissingTableFailsFast ==
    [][\A n \in Names :
          (strat[n].df = NoTable /\ TableMethod(n)) =>
              /\ result'.raised = "ValueError"
              /\ disk' = disk
              /\ strat' = strat
              /\ port' = port]_vars

\* returns() was called on a Strategy that has no table, and raised
C8_Witness ==
    /\ result.op = "returns"
    /\ result.raised = "ValueError"
    /\ strat[result.target].live
    /\ strat[result.target].df = NoTable

\* the rows of the prediction table inside the horizon now < t <= now + 3 days
InHorizon(row) == Now < row.dt /\ row.dt <= Now + LookaheadDays

\* C11: Strategy.next returns exactly the rows of the prediction table whose
\* time lies in now < t <= now + 3 days: none outside, none inside dropped,
\* none twice.
C11_NextWindowExact ==
    nb_pc = "returned" =>
        /\ {r.id : r \in Range(next_out.df)} =
               {pred[i].id : i \in {j \in DOMAIN pred : InHorizon(pred[j])}}
        /\ \A i, j \in DOMAIN next_out.df :
               next_out.df[i].id = next_out.df[j].id => i = j
        /\ \A r \in Range(next_out.df) : r = pred[r.id]

\* next() returned on a table with rows at now, at now + 3 days and after it
C11_Witness ==
    /\ nb_pc = "returned"
    /\ \E i, j, k \in DOMAIN pred :
           /\ pred[i].dt = Now
           /\ pred[j].dt = Now + LookaheadDays
           /\ pred[k].dt > Now + LookaheadDays
    /\ Len(next_out.df) = 1

HasProbability(row) == \E t \in DOMAIN row.probs : row.probs[t] # NaN

\* C13: next_bets emits exactly one record per configured strategy and event of
\* the horizon (events without any probability aside); its kelly field is the
\* strategy's multiplier, a number of (0, 1], and its weight field the
\* portfolio's weight of the strategy.
C13_OneRecordPerStrategyEvent ==
    nb_pc \in {"done", "raised"} =>
        /\ \A s \in DOMAIN nb_strategies : \A i \in DOMAIN pred :
               (InHorizon(pred[i]) /\ HasProbability(pred[i])) =>
                   Cardinality({k \in DOMAIN bets :
                                   /\ bets[k].strategy = nb_strategies[s]
                                   /\ bets[k].id = pred[i].id}) = 1
        /\ \A b \in Range(bets) :
               /\ b.kelly.kind = "float"
               /\ b.weight = WeightOf(b.strategy)

\* C14: for every date of the input index the portfolio column is the sum over
\* the strategies of the weight decided for the date times the strategy's own
\* return on it, and every input date has a blended value.
C14_BlendIsWeightedSum ==
    \A i \in DOMAIN applied :
        LET d == returns[i].dt
            blend == SumSeq([c \in 1..NumStrategies |-> applied[i][c] * returns[i].v[c]])
            rows == {j \in DOMAIN ret : ret[j].dt = d}
        IN  /\ Cardinality(rows) = 1
            /\ \A j \in rows : ret[j].port = Num(blend)

\* a finished fit with an optimized date whose blend is not zero
C14_Witness ==
    /\ fit_pc = "done"
    /\ \E i \in DOMAIN applied :
           /\ policy[i] = "optimized"
           /\ \E j \in DOMAIN ret : ret[j].dt = returns[i].dt /\ ret[j].port # Num(0)

\* C18: the table Portfolio.fit returns has a strictly increasing index of one
\* row per calendar day from its first to its last date, and a day that had no
\* input row holds 0.0 in every column.
C18_DailyIndexZeroFilled ==
    fit_pc = "done" =>
        /\ ret[1].dt = returns[1].dt
        /\ ret[Len(ret)].dt = returns[Len(returns)].dt
        /\ \A j \in 1..(Len(ret) - 1) : ret[j + 1].dt = ret[j].dt + 1
        /\ \A j \in DOMAIN ret :
               (\A i \in DOMAIN returns : returns[i].dt # ret[j].dt) =>
                   /\ \A c \in DOMAIN ret[j].v : ret[j].v[c] = 0
                   /\ ret[j].port = Num(0)

\* a finished fit whose input index skipped days
C18_Witness ==
    /\ fit_pc = "done"
    /\ Len(ret) > Len(returns)
    /\ \E j \in DOMAIN ret : \A i \in DOMAIN returns : returns[i].dt # ret[j].dt

\* C15: the winning multiplier and its return series are persisted: a new
\* Strategy object of the same name, over the unchanged table, holds the series
\* the search produced without searching again.
C15_KellyResultPersisted ==
    [][\A n \in ApiNames :
          (/\ strat[n].returns # NoTable
           /\ strat[n].returns = strat[n].df
           /\ \E p \in PlaceArgs \cup {NoPlace} : NewStrategy(n, p))
              => strat'[n].returns = strat[n].returns]_vars

\* C16: replacing the training table invalidates the cached returns: a Strategy
\* never holds a return series computed from a table other than its current one.
C16_ReturnsInvalidatedBySetter ==
    \A n \in Names :
        strat[n].live => strat[n].returns \in {NoTable, strat[n].df}

\* C17: _process on a table returns that table's processed features without
\* error; it runs the pipeline exactly when no cache file of the table's hash
\* exists, and afterwards a cache file of that hash exists. A table is never
\* served the features of a different table.
C17_ProcessCache ==
    [][\A n \in ApiNames :
          (strat[n].df # NoTable /\ CallProcess(n)) =>
              /\ result'.raised = "none"
              /\ result'.value = strat[n].df
              /\ result'.ran <=> (\A e \in disk.cache[n] : e.path # CachePath(strat[n].df))
              /\ \E e \in disk'.cache[n] : e.path = CachePath(strat[n].df)
              /\ \A e \in disk.cache[n] : e \in disk'.cache[n]]_vars

\* C19: capital normalization. The normalized stake fractions of a date sum to
\* at most 1.0; when the scaled raw fractions sum to more than 1.0 every one is
\* divided by that sum, so the total is exactly 1.0 and the ratios between
\* fractions are kept; when they sum to at most 1.0 they are unchanged.
C19_CapitalNormalization ==
    stake_pc = "normalized" =>
        LET total == SumSeq(scaled_fs)
            nums == SumSeq([i \in DOMAIN stakes |-> stakes[i].num])
        IN  /\ \A i, j \in DOMAIN stakes : stakes[i].den = stakes[j].den /\ stakes[i].den > 0
            /\ nums <= Den(stakes)
            /\ total > Capital =>
                   /\ nums = Den(stakes)
                   /\ \A i \in DOMAIN stakes : stakes[i].num * total = scaled_fs[i] * stakes[i].den
                   /\ \A i, j \in DOMAIN stakes :
                          stakes[i].num * scaled_fs[j] = stakes[j].num * scaled_fs[i]
            /\ total <= Capital =>
                   \A i \in DOMAIN stakes : stakes[i].num * Capital = scaled_fs[i] * stakes[i].den

\* raw fractions 0.6, 0.5 and 0.4 at k = 1.00 became 0.4, 0.3333 and 0.2667
C19_Witness ==
    /\ stake_pc = "normalized"
    /\ raw = <<60, 50, 40>> \o [i \in 1..(MaxEvents - 3) |-> 0]
    /\ try_k = GridSize
    /\ stakes[1] = [num |-> 6000, den |-> 15000]
    /\ stakes[2] = [num |-> 5000, den |-> 15000]
    /\ stakes[3] = [num |-> 4000, den |-> 15000]

\* C20: the raw Kelly fraction is never negative, and it is 0 exactly when
\* p <= (1 - p) / bet_prob, bet_prob = 1 / price.
C20_RawFractionFloor ==
    stake_pc # "start" =>
        LET e == Eligible(events)
        IN  \A i \in DOMAIN e :
                /\ raw[i] >= 0
                /\ raw[i] = 0 <=> One * e[i].p <= (One - e[i].p) * e[i].price

\* a date with a fraction of 0 at p = (1 - p) / bet_prob exactly, a fraction of
\* 0 below it and a positive fraction
C20_Witness ==
    /\ stake_pc = "raw"
    /\ Eligible(events) = events
    /\ \E i, j, k \in DOMAIN events :
           /\ events[i].p > 0
           /\ One * events[i].p = (One - events[i].p) * events[i].price
           /\ raw[i] = 0
           /\ One * events[j].p < (One - events[j].p) * events[j].price
           /\ raw[j] = 0
           /\ raw[k] > 0

\* C26: two-participant label. In a table of two participants per event the
\* label away_win of an event is true exactly when participant 1 scored
\* strictly more points than participant 0; a tie gives false.
C26_AwayWinStrict ==
    (lab_pc \in {"labelled", "trained"} /\ TeamCount(y_points) = 2) =>
        \A r \in DOMAIN y_points :
            /\ labels[r] <=> y_points[r][1] > y_points[r][0]
            /\ y_points[r][1] = y_points[r][0] => ~labels[r]

\* a labelled two-participant table with a tie
C26_Witness ==
    /\ lab_pc = "labelled"
    /\ TeamCount(y_points) = 2
    /\ \E r \in DOMAIN y_points : y_points[r][1] = y_points[r][0] /\ ~labels[r]

\* C29: component columns. In the table Portfolio.fit returns, the column of
\* every strategy holds, on every input date, that strategy's own input return,
\* on dates blended with equal weights and on optimized dates alike.
C29_ComponentColumnsKept ==
    fit_pc = "done" =>
        \A i \in DOMAIN returns : \A j \in DOMAIN ret :
            ret[j].dt = returns[i].dt =>
                \A c \in 1..NumStrategies :
                    ret[j].v[c] = NumCols(returns) * returns[i].v[c]

\* C22: cached train. `train --cached` uses the table that the most recent
\* non-cached train of the same name persisted: the table file of a name
\* changes only in a non-cached train of that name, to the table that run was
\* given; a cached train loads the file and leaves it as it is; and with no
\* table ever persisted the cached train fails with the missing-table error.
C22_CachedTrainUsesPersisted ==
    [][\A n \in Names :
          /\ disk'.df[n] # disk.df[n] =>
                 \E p \in PlaceArgs \cup {NoPlace}, t \in Tables :
                     RunTrain(n, p, FALSE, t) /\ disk'.df[n] = t
          /\ (result'.op = "main_train_cached" /\ result'.target = n) =>
                 \A p \in PlaceArgs \cup {NoPlace} :
                     RunTrain(n, p, TRUE, NoTable) =>
                         /\ strat'[n].df = disk.df[n]
                         /\ disk'.df[n] = disk.df[n]
                         /\ disk.df[n] = NoTable =>
                                result'.raised = "ValueError" /\ ~result'.ran]_vars

\* a cached train that succeeded on the table an earlier run left behind
C22_Witness ==
    /\ result.op = "main_train_cached"
    /\ result.raised = "none"
    /\ \E n \in Names : result.target = n /\ strat[n].df = "t2" /\ disk.df[n] = "t2"

\* C24: place persistence on the command line. Once an earlier train has
\* configured a place for a strategy, a later train, portfolio or next run
\* that gives no --place leaves the configured place as it is, and a strategy
\* object it builds uses that place.
C24_PlaceRetainedWithoutFlag ==
    [][\/ \E n \in Names, t \in Tables : RunTrain(n, NoPlace, FALSE, t)
       \/ \E n \in Names : RunTrain(n, NoPlace, TRUE, NoTable)
       \/ \E arg \in StrategyArgs : RunPortfolio(arg)
       \/ RunNext
       => \A n \in Names :
              disk.config[n] # NoPlace =>
                  /\ disk'.config[n] = disk.config[n]
                  /\ strat'[n].live => strat'[n].place = disk.config[n]]_vars

\* C28: a portfolio command with no strategies, --strategy omitted or given
\* with no value, fails with the ValueError of lines 98-101 and leaves the
\* portfolio file as it was.
C28_EmptyPortfolioRejected ==
    [][\A arg \in StrategyArgs :
          (arg.values = <<>> /\ RunPortfolio(arg)) =>
              /\ result'.raised = "ValueError"
              /\ disk'.portfolio = disk.portfolio]_vars

\* C23: place round trip. Strategy(name, place=p) persists p and uses it; a
\* later Strategy(name) without a place uses the persisted place, or 1 when no
\* place was ever given and no config file exists; and Strategy(name) without
\* a place never creates or modifies the config file.
C23_PlaceRoundTrip ==
    [][\A n \in ApiNames :
          /\ \A p \in PlaceArgs :
                 NewStrategy(n, p) => disk'.config[n] = p /\ strat'[n].place = p
          /\ NewStrategy(n, NoPlace) =>
                 /\ disk'.config = disk.config
                 /\ strat'[n].place =
                        IF disk.config[n] # NoPlace THEN disk.config[n] ELSE 1]_vars

\* a portfolio loaded its strategy without a place, and the strategy has the
\* place an earlier constructor persisted
C23_Witness ==
    /\ result.op = "Portfolio"
    /\ strat["a"].live
    /\ strat["a"].place = MaxTeams
    /\ disk.config["a"] = MaxTeams

\* C25: portfolio membership round trip. The strategies setter persists exactly
\* the names of the list it is given, each with weight 0.0, in place of the
\* previous membership; a Portfolio constructed afterwards has the names and
\* weights of the file, and without a file it has no strategies and no weights.
C25_MembershipRoundTrip ==
    [][/\ \A names \in {<<>>, <<"a">>} :
              SetStrategies(names) =>
                  /\ disk'.portfolio.exists
                  /\ Range(KeysOf(disk'.portfolio.strategies)) = Range(names)
                  /\ Len(disk'.portfolio.strategies) = Cardinality(Range(names))
                  /\ \A i \in DOMAIN disk'.portfolio.strategies :
                         disk'.portfolio.strategies[i].weight = 0
       /\ NewPortfolio =>
              /\ disk' = disk
              /\ IF disk.portfolio.exists
                 THEN /\ port'.strategies = KeysOf(disk.portfolio.strategies)
                      /\ port'.weights = disk.portfolio.strategies
                 ELSE port'.strategies = <<>> /\ port'.weights = <<>>]_vars

\* a portfolio constructed from a file that names a strategy
C25_Witness ==
    /\ result.op = "Portfolio"
    /\ disk.portfolio.exists
    /\ port.strategies = <<"a">>
    /\ port.weights = <<[name |-> "a", weight |-> 0]>>

\* C21: daily P&L. The P&L of a date is the sum over its events of price times
\* stake fraction when the backed outcome won and minus the stake fraction
\* when it lost; an event whose backed outcome has no price or no probability
\* is left out and contributes exactly 0, and the P&L is never NaN.
C21_DailyPnl ==
    stake_pc = "settled" =>
        LET Pos(i) == Cardinality({j \in 1..i : events[j].has = "both"})
            Contribution(i) ==
                IF events[i].has # "both" THEN 0
                ELSE IF events[i].won THEN events[i].price * stakes[Pos(i)].num
                ELSE -(One * stakes[Pos(i)].num)
        IN  /\ pnl # NaN
            /\ pnl = Num([num |-> SumSeq([i \in DOMAIN events |-> Contribution(i)]),
                          den |-> One * Den(stakes)])

\* a settled date with a winning event, a losing event and an event without a
\* price between them
C21_Witness ==
    /\ stake_pc = "settled"
    /\ pnl # NaN
    /\ events[1].has = "both" /\ events[1].won /\ stakes[1].num > 0
    /\ events[2].has = "no_price"
    /\ events[3].has = "both" /\ ~events[3].won /\ stakes[2].num > 0
    /\ pnl[1].num = events[1].price * stakes[1].num - One * stakes[2].num

\* C27: missing-odds prompt. Predict asks for every missing odds value of a row
\* dated on or after yesterday until a numeric value is entered, so when it
\* reaches the transform step no such row has missing odds for any
\* participant, rows dated earlier are as they were, and odds that were
\* present are unchanged.
C27_PromptFillsMissingOdds ==
    pr_pc = "transform" =>
        \A i \in DOMAIN x_df :
            /\ x_df[i].day >= today => \A t \in DOMAIN x_df[i].odds : x_df[i].odds[t] # NaN
            /\ x_df[i].day < today => x_df[i] = x_before[i]
            /\ \A t \in DOMAIN x_df[i].odds :
                   x_before[i].odds[t] # NaN => x_df[i].odds[t] = x_before[i].odds[t]

\* C30: CombinedFeature.process applies the pretrain features in their listed
\* order, then removes every lookahead column, then applies the posttrain
\* features in their listed order: no posttrain feature receives a lookahead
\* column, and the returned table holds no positive or negative infinity.
C30_CombinedOrder ==
    LET all == PretrainFeatures \o PosttrainFeatures
    IN  /\ Len(cf_applied) <= Len(all)
        /\ cf_applied = SubSeq(all, 1, Len(cf_applied))
        /\ cf_pc = "pretrain" => Len(cf_applied) <= Len(PretrainFeatures)
        /\ cf_pc = "posttrain" =>
               /\ Len(cf_applied) >= Len(PretrainFeatures)
               /\ {col.name : col \in cf_df} \cap cf_lookahead = {}
        /\ cf_received \cap cf_lookahead = {}
        /\ cf_pc = "returned" =>
               /\ cf_applied = all
               /\ \A col \in cf_df : col.cell \notin {"inf", "-inf"}

\* a returned table whose input had a lookahead column holding an infinity and
\* whose features produced infinities of both signs
C30_Witness ==
    /\ cf_pc = "returned"
    /\ cf_lookahead = {"points"}
    /\ "points" \notin {col.name : col \in cf_df}
    /\ [name |-> "odds", cell |-> "nan"] \in cf_df
    /\ [name |-> "OffensiveEfficiencyFeature", cell |-> "nan"] \in cf_df
    /\ [name |-> "OrdinalFeature", cell |-> "nan"] \in cf_df
    /\ cf_received # {}

====
